---- MODULE Spec2Model ----
(***************************************************************************)
(* The download pipeline of the torrent client: connect_to_peers / main    *)
(* (master.py, utils/download.py), the three worker stages, the piece      *)
(* ledger kept in ResumeData (utils/json_data.py) and the message handlers *)
(* (utils/handlers.py).                                                    *)
(*                                                                         *)
(* One state of the model is one point where every asyncio task is         *)
(* suspended at an await.  Every `await` of the source is a scheduling     *)
(* point, `async with resume_data.lock` included; the body of each         *)
(* `async with` holds no await, so each critical section is one step and   *)
(* the lock is free in every state.                                        *)
(*                                                                         *)
(* Spec is the pipeline with peers that may do anything.  SpecOnePeer is   *)
(* the pipeline with one peer that serves every piece, under fairness.     *)
(* The functions that are checked on their own inputs have a specification *)
(* each, with the pipeline at rest: SpecBitfield (bitfield_handler,        *)
(* build_bitfeild), SpecHandshake (is_handshake), SpecRecv                 *)
(* (recv_whole_message), SpecBlocks (the block requests of a piece),       *)
(* SpecSave (save_piece_to_disk) and SpecResume (to_json, from_json and    *)
(* the startup of master.py).  SpecPersist is to_json as a sequence of     *)
(* writes to the disk, SpecShutdown the pipeline with the main thread of   *)
(* master.py and its interrupt handler, SpecTracker the tracker thread     *)
(* (populate_peers, utils/get_peers.py) and SpecDisk the pipeline with a   *)
(* failing save_piece_to_disk.  SpecTalk is the pipeline with one peer     *)
(* that answers, whatever it sends and in whatever order, with weak        *)
(* fairness on main and on the steps of each session.                      *)
(***************************************************************************)
EXTENDS Integers, Sequences, FiniteSets, TLC

\* ------------------------------------------------------------- bounds
\* Peers handed over by one tracker answer (one session each per run of main).
NumPeers == 3
\* num_of_pieces of the torrent.  bitfield_handler gives up on a byte
\* whose highest piece index is past the end, so at least one whole byte (8
\* pieces) is needed for a peer's bitfield to yield anything.
NumPieces == 8
\* Peer lists the tracker thread publishes during the run.
MaxBatches == 1

\* ------------------------------------------------- program constants
NUM_CONN_TASKS == 4
NUM_HANDLE_TASKS == 2
NUM_DOWNLOAD_TASKS == 8
\* Bound on the batch size: 30 in the source, 2 here so that the cap is
\* reached by a peer that advertises three pieces.
MAX_CLAIM_PER_PEER == 2
BLOCK_SIZE == 16384

\* Message ids of the peer-wire protocol (verify_messages.py).
ID_CHOKE == 0
ID_UNCHOKE == 1
ID_HAVE == 4
ID_BITFIELD == 5
ID_PIECE == 7
\* parse_message gives id None for a keep-alive; no message read yet is the same.
ID_NONE == -1

\* ------------------------------------------------------- the torrent
\* TorrentDetails.piece_length and total_length: the last piece is shorter
\* than the others (7232 bytes, as in a torrent of 40000 bytes).
piece_length == 16384
LastPieceLength == 7232
total_length == (NumPieces - 1) * piece_length + LastPieceLength

Peers == 1 .. NumPeers
Pieces == 0 .. (NumPieces - 1)

Range(seq) == {seq[j] : j \in 1 .. Len(seq)}

Min(a, b) == IF a < b THEN a ELSE b

\* Bytes of the torrent that piece i really has.
PieceSize(i) == Min(piece_length, total_length - i * piece_length)

\* ------------------------------------------------------ piece bytes
\* A buffer is a sequence of block slots.  A slot records its size in bytes,
\* how many of its leading bytes were overwritten by a received block (got)
\* and what those bytes are (src): the bytes of piece src of the torrent, or
\* JUNK for bytes that belong to no piece; the bytes after got are the zeros
\* of bytearray(piece_length).
JUNK == 0 - 1

\* num_blocks and block_length as download_from_peer computes them from a
\* piece length pl.
NumBlocksOf(pl) == (pl + BLOCK_SIZE - 1) \div BLOCK_SIZE

BlockLengthOf(pl, block_num) == Min(BLOCK_SIZE, pl - block_num * BLOCK_SIZE)

num_blocks == NumBlocksOf(piece_length)

block_length(block_num) == BlockLengthOf(piece_length, block_num)

NewBuffer == [b \in 1 .. num_blocks |-> [size |-> block_length(b - 1), got |-> 0, src |-> JUNK]]

\* The bytes of piece i as the torrent defines them.
TrueContent(i) ==
    [b \in 1 .. ((PieceSize(i) + BLOCK_SIZE - 1) \div BLOCK_SIZE) |->
        LET n == Min(BLOCK_SIZE, PieceSize(i) - (b - 1) * BLOCK_SIZE)
        IN  [size |-> n, got |-> n, src |-> i]]

\* SHA-1 taken as collision free: a digest is equal to another exactly when
\* the bytes are.
SHA1(data) == <<"sha1", data>>

\* TorrentDetails.hash_of_pieces
hash_of_pieces(i) == SHA1(TrueContent(i))

verify_piece_hash_always(piece_data, piece_hash) == TRUE

\* handlers.verify_piece_hash
verify_piece_hash(piece_data, piece_hash) == SHA1(piece_data) = piece_hash

\* piece_data[begin:begin + len(r_block)] = r_block, for block slot b.
StoreBlock(piece_data, b, r_block) ==
    [piece_data EXCEPT ![b] = [size |-> IF r_block.len > @.size THEN r_block.len ELSE @.size,
                               got |-> r_block.len,
                               src |-> r_block.src]]

\* What a peer can answer to request(piece_index, begin, length): the
\* torrent's bytes of that range, or bytes of the same length that are not.
GoodBlock(i, b) ==
    [len |-> Min(block_length(b - 1), PieceSize(i) - (b - 1) * BLOCK_SIZE), src |-> i]

JunkBlock(b) == [len |-> block_length(b - 1), src |-> JUNK]

\* ---------------------------------------------------------- handlers
\* (byte >> bit) & 1
BitOf(byte, bit) == (byte \div (2 ^ bit)) % 2

\* The inner loop of bitfield_handler over one byte: bit runs 0..7, the
\* piece index is byte_index * 8 + (7 - bit), and the loop BREAKS at the
\* first index past the end.
RECURSIVE BitLoop(_, _, _, _, _)
BitLoop(byte, byte_index, bit, vp, total_pieces) ==
    IF bit > 7 THEN <<>>
    ELSE LET piece_index == byte_index * 8 + (7 - bit)
         IN  IF piece_index >= total_pieces THEN <<>>
             ELSE (IF BitOf(byte, bit) = 1 /\ ~vp[piece_index]
                   THEN <<piece_index>> ELSE <<>>)
                  \o BitLoop(byte, byte_index, bit + 1, vp, total_pieces)

\* total_pieces = len(verified_pieces)
RECURSIVE ByteLoop(_, _, _)
ByteLoop(payload, byte_index, vp) ==
    IF byte_index >= Len(payload) THEN <<>>
    ELSE BitLoop(payload[byte_index + 1], byte_index, 0, vp, Cardinality(DOMAIN vp))
         \o ByteLoop(payload, byte_index + 1, vp)

bitfield_handler(payload, vp) == ByteLoop(payload, 0, vp)

\* The byte build_bitfeild leaves at byte_index after the |= of every i with
\* i // 8 = byte_index, i from i0 on: bit 7 - i % 8 for each piece held.
RECURSIVE OrBits(_, _, _)
OrBits(bitfeild, byte_index, i) ==
    IF i \notin DOMAIN bitfeild \/ i \div 8 # byte_index THEN 0
    ELSE (IF bitfeild[i] THEN 2 ^ (7 - (i % 8)) ELSE 0) + OrBits(bitfeild, byte_index, i + 1)

\* build_bitfeild: the bytes after the 5-byte header, (num_of_pieces + 7) // 8 of them.
build_bitfeild(bitfeild, num_of_pieces) ==
    [j \in 1 .. ((num_of_pieces + 7) \div 8) |-> OrBits(bitfeild, j - 1, (j - 1) * 8)]

\* have_handler; an index past the list raises IndexError (HandleFirstMessage).
have_handler(piece_index, vp) == IF ~vp[piece_index] THEN <<piece_index>> ELSE <<>>

\* ------------------------------------------------------------ ledger
Claimable_ignoring_claims(piece_index, vp, cp) == ~vp[piece_index]

\* The test of download_from_peer's claim loop.
Claimable(piece_index, vp, cp) == ~vp[piece_index] /\ piece_index \notin cp

\* if len(claimed) >= MAX_CLAIM_PER_PEER: break
ClaimCap(claimed) == Len(claimed) >= MAX_CLAIM_PER_PEER

\* The claim loop under the lock: the batch claimed, in list order.
RECURSIVE ClaimLoop(_, _, _, _)
ClaimLoop(avail, vp, cp, claimed) ==
    IF avail = <<>> \/ ClaimCap(claimed) THEN claimed
    ELSE LET piece_index == Head(avail)
         IN  IF Claimable(piece_index, vp, cp)
             THEN ClaimLoop(Tail(avail), vp, cp \cup {piece_index}, Append(claimed, piece_index))
             ELSE ClaimLoop(Tail(avail), vp, cp, claimed)

DiscardOnCommit_kept(cp, piece_index) == cp

\* resume_data.claimed_pieces.discard(piece_index) of the commit section.
DiscardOnCommit(cp, piece_index) == cp \ {piece_index}

DiscardOnMismatch_kept(cp, piece_index) == cp

\* resume_data.claimed_pieces.discard(piece_index) after a failed hash check.
DiscardOnMismatch(cp, piece_index) == cp \ {piece_index}

ReleaseOnError_none(cp, claimed) == cp

\* The except branch of download_from_peer: every index of the batch is discarded.
ReleaseOnError(cp, claimed) == cp \ Range(claimed)

\* ------------------------------------------------------------- state
VARIABLES
    peers_list,        \* master.peers_list: peer lists published by the tracker thread
    published,         \* how many lists the tracker thread has published
    mainpc,            \* where connect_to_peers / main stands
    peer_queue,        \* main's three asyncio queues (items are peers)
    handshake_queue,
    download_queue,
    unfinished,        \* each queue's count of items put and not yet task_done
    sess,              \* per peer: the session and the worker that owns it
    verified_pieces,   \* ResumeData.verified_pieces
    downloaded,        \* ResumeData.downloaded
    claimed_pieces,    \* ResumeData.claimed_pieces
    call,              \* a function of the program called on its own: name and arguments
    ret,               \* what that call returned
    tracker,           \* the tracker thread: populate_peers / get_peers_list and their globals
    process,           \* the main thread of master.py and the process's exit
    resume_file,       \* resume.json in the download directory
    on_disk            \* the pieces save_piece_to_disk has written in this run

vars == <<peers_list, published, mainpc, peer_queue, handshake_queue, download_queue,
          unfinished, sess, verified_pieces, downloaded, claimed_pieces, call, ret,
          tracker, process, resume_file, on_disk>>

ledger == <<verified_pieces, downloaded, claimed_pieces>>
queues == <<peer_queue, handshake_queue, download_queue, unfinished>>
feed == <<peers_list, published>>
units == <<call, ret>>
life == <<tracker, process, resume_file, on_disk>>

\* ------------------------------------------------------------ inputs
\* The list a tracker answer holds: every peer of the model, in order.
PeerBatch == [j \in 1 .. NumPeers |-> j]

\* verified_pieces of the resume record found at startup (none: a fresh one).
ResumeSets == {{}, {0, 1}}

\* Bitfield payloads peers send: 224 = pieces 0, 1, 2.
BitfieldPayloads == {<<224>>}

\* Piece indices of have messages: a piece of the torrent and one past the end.
HaveIndices == {2, NumPieces}

\* The threads of master.py and the resume file, where a specification leaves
\* them out; no piece has been written yet.
Unstarted ==
    /\ tracker = [pc |-> "none"]
    /\ process = [main |-> "none"]
    /\ resume_file = [state |-> "none"]
    /\ on_disk = {}

\* No function is called on its own in a run of the pipeline.
NoCall == [op |-> "none"]
NoRet == [done |-> FALSE]

\* The pipeline as it stands before connect_to_peers has taken a peer list.
pipeline == <<feed, mainpc, queues, sess, ledger>>

\* A session between runs of main, and as main puts its peer on peer_queue.
NoSession ==
    [pc |-> "none", stream |-> "none", exit |-> "none", parsed |-> ID_NONE,
     unchoked |-> FALSE, interested |-> FALSE, pieces |-> <<>>, claimed |-> <<>>,
     k |-> 0, block_num |-> 0, piece_data |-> <<>>]

Busy(pcs) == Cardinality({p \in Peers : sess[p].pc \in pcs})

\* The session ends: its worker's locals are gone.  exit tells how it left:
\* "error" through the except branch of download_from_peer, "cancelled" by
\* task.cancel(), "died" with its worker's task, "none" any other way.
Ended(why, stream) == [NoSession EXCEPT !.pc = "closed", !.exit = why, !.stream = stream]

Init ==
    /\ peers_list = <<>>
    /\ published = 0
    /\ mainpc = "get"
    /\ peer_queue = <<>>
    /\ handshake_queue = <<>>
    /\ download_queue = <<>>
    /\ unfinished = [peer |-> 0, handshake |-> 0, download |-> 0]
    /\ sess = [p \in Peers |-> NoSession]
    /\ \E V \in ResumeSets :
          /\ verified_pieces = [i \in Pieces |-> i \in V]
          /\ downloaded = Cardinality(V)
    /\ claimed_pieces = {}
    /\ Unstarted
    /\ call = NoCall
    /\ ret = NoRet

\* The pipeline at rest, while a function is called on its own.
Idle ==
    /\ peers_list = <<>>
    /\ published = 0
    /\ mainpc = "get"
    /\ peer_queue = <<>>
    /\ handshake_queue = <<>>
    /\ download_queue = <<>>
    /\ unfinished = [peer |-> 0, handshake |-> 0, download |-> 0]
    /\ sess = [p \in Peers |-> NoSession]
    /\ verified_pieces = [i \in Pieces |-> FALSE]
    /\ downloaded = 0
    /\ claimed_pieces = {}

\* The call returns.
Returns(value) == ret' = [done |-> TRUE, value |-> value]

\* --------------------------------------------- tracker thread and main
\* populate_peers: get_peers_list puts one list of peers on peers_list.
TrackerPublish ==
    /\ published < MaxBatches
    /\ published' = published + 1
    /\ peers_list' = Append(peers_list, PeerBatch)
    /\ UNCHANGED <<units, life, mainpc, queues, sess, ledger>>

\* connect_to_peers takes a list and runs main up to its first join.  The
\* connection workers start in order and get() returns at once on a queue
\* that is not empty: each takes a peer and awaits its connection.
MainStart ==
    /\ mainpc = "get"
    /\ peers_list # <<>>
    /\ LET peers == Head(peers_list)
           taken == Min(NUM_CONN_TASKS, Len(peers))
       IN  /\ peer_queue' = SubSeq(peers, taken + 1, Len(peers))
           /\ unfinished' = [peer |-> Len(peers), handshake |-> 0, download |-> 0]
           /\ sess' = [p \in Peers |->
                         IF \E j \in 1 .. taken : peers[j] = p
                         THEN [NoSession EXCEPT !.pc = "connecting"]
                         ELSE IF p \in Range(peers)
                         THEN [NoSession EXCEPT !.pc = "peer_queue"]
                         ELSE NoSession]
    /\ peers_list' = Tail(peers_list)
    /\ handshake_queue' = <<>>
    /\ download_queue' = <<>>
    /\ mainpc' = "join_peer"
    /\ UNCHANGED <<units, life, published, ledger>>

\* await peer_queue.join()
MainJoinPeer ==
    /\ mainpc = "join_peer"
    /\ unfinished.peer = 0
    /\ mainpc' = "join_handshake"
    /\ UNCHANGED <<units, life, feed, queues, sess, ledger>>

\* await handshake_queue.join()
MainJoinHandshake ==
    /\ mainpc = "join_handshake"
    /\ unfinished.handshake = 0
    /\ mainpc' = "join_download"
    /\ UNCHANGED <<units, life, feed, queues, sess, ledger>>

\* task.cancel() as it reaches a worker: CancelledError is raised at the
\* worker's await.  It is not an Exception, so no `except Exception` branch
\* runs; only download_from_peer's finally does (the stream is closed).
Cancelled(s) ==
    IF s.pc \in {"claim", "recv_block", "reject", "commit", "error"}
    THEN [s EXCEPT !.pc = "closed", !.exit = "cancelled", !.stream = "closed"]
    ELSE IF s.pc \in {"connecting", "first_msg", "wait_unchoke"}
    THEN [s EXCEPT !.pc = "closed", !.exit = "cancelled"]
    ELSE s

\* await download_queue.join(), then every task is cancelled and main returns.
MainJoinDownload ==
    /\ mainpc = "join_download"
    /\ unfinished.download = 0
    /\ sess' = [p \in Peers |-> Cancelled(sess[p])]
    /\ mainpc' = "get"
    /\ UNCHANGED <<units, life, feed, queues, ledger>>

\* ---------------------------------------------------- connection stage
\* One pass of connection_worker's loop body from the connect on: the TCP
\* connect fails or times out, the handshake fails (rejected, timeout,
\* error), or the session is queued; then task_done, and the worker takes
\* the next peer if one is left on peer_queue.
\* With "close_raises" the handshake fails and writer.wait_closed() raises
\* in turn: the exception leaves connection_worker, whose task ends there,
\* before task_done and without taking another peer.
ConnDone(p, outcome) ==
    /\ sess[p].pc = "connecting"
    /\ IF outcome = "close_raises"
       THEN /\ sess' = [sess EXCEPT ![p] = Ended("died", "closed")]
            /\ UNCHANGED <<peer_queue, handshake_queue, unfinished>>
       ELSE /\ LET after == CASE outcome = "tcp_error" -> Ended("none", "none")
                            [] outcome = "handshake_failed" -> Ended("none", "closed")
                            [] OTHER -> [sess[p] EXCEPT !.pc = "handshake_queue",
                                                        !.stream = "open"]
               IN  sess' = [q \in Peers |->
                              IF q = p THEN after
                              ELSE IF peer_queue # <<>> /\ q = Head(peer_queue)
                              THEN [sess[q] EXCEPT !.pc = "connecting"]
                              ELSE sess[q]]
            /\ peer_queue' = IF peer_queue # <<>> THEN Tail(peer_queue) ELSE peer_queue
            /\ IF outcome = "ok"
               THEN /\ handshake_queue' = Append(handshake_queue, p)
                    /\ unfinished' = [unfinished EXCEPT !.peer = @ - 1, !.handshake = @ + 1]
               ELSE /\ UNCHANGED handshake_queue
                    /\ unfinished' = [unfinished EXCEPT !.peer = @ - 1]
    /\ UNCHANGED <<units, life, feed, mainpc, download_queue, ledger>>

\* -------------------------------------------------------- handle stage
\* handle_worker: peer, reader, writer = await handshake_queue.get()
HandleGet(p) ==
    /\ handshake_queue # <<>>
    /\ Head(handshake_queue) = p
    /\ Busy({"first_msg", "wait_unchoke"}) < NUM_HANDLE_TASKS
    /\ handshake_queue' = Tail(handshake_queue)
    /\ sess' = [sess EXCEPT ![p].pc = "first_msg"]
    /\ UNCHANGED <<units, life, feed, mainpc, peer_queue, download_queue, unfinished, ledger>>

\* handshake_queue.task_done() with the session not handed on.
HandleDrop(p, stream) ==
    /\ sess' = [sess EXCEPT ![p] = Ended("none", stream)]
    /\ unfinished' = [unfinished EXCEPT !.handshake = @ - 1]
    /\ UNCHANGED download_queue

HandlePut_uncounted(p, pieces_to_request, unchoked, interested) ==
    /\ sess' = [sess EXCEPT ![p].pc = "download_queue",
                            ![p].pieces = pieces_to_request,
                            ![p].unchoked = unchoked,
                            ![p].interested = interested]
    /\ download_queue' = Append(download_queue, p)
    /\ unfinished' = [unfinished EXCEPT !.handshake = @ - 1]

\* await download_queue.put(...), then handshake_queue.task_done().
\* interested: whether build_interested() was written to the stream before.
HandlePut(p, pieces_to_request, unchoked, interested) ==
    /\ sess' = [sess EXCEPT ![p].pc = "download_queue",
                            ![p].pieces = pieces_to_request,
                            ![p].unchoked = unchoked,
                            ![p].interested = interested]
    /\ download_queue' = Append(download_queue, p)
    /\ unfinished' = [unfinished EXCEPT !.handshake = @ - 1, !.download = @ + 1]

\* The id parse_message gives for each kind of message.
IdOf(kind) ==
    CASE kind = "choke" -> ID_CHOKE
      [] kind = "unchoke" -> ID_UNCHOKE
      [] kind = "have" -> ID_HAVE
      [] kind = "bitfield" -> ID_BITFIELD
      [] kind = "piece" -> ID_PIECE
      [] OTHER -> ID_NONE

\* What can come first on the stream: a message, or a read that times out or fails.
FirstMessages ==
    [kind : {"have"}, index : HaveIndices]
    \cup [kind : {"bitfield"}, payload : BitfieldPayloads]
    \cup [kind : {"choke", "unchoke", "keepalive", "timeout", "error"}]

\* The first message arrives, or the read times out or fails.
HandleFirstMessage(p, msg) ==
    /\ sess[p].pc = "first_msg"
    /\ \/ /\ msg.kind = "have"
          /\ IF msg.index \notin Pieces
             THEN \* IndexError in have_handler: the except branch closes the stream
                  HandleDrop(p, "closed")
             ELSE LET pieces_to_request == have_handler(msg.index, verified_pieces)
                  IN  IF Len(pieces_to_request) = 0
                      THEN \* task_done and continue: the stream is not closed
                           HandleDrop(p, "open")
                      ELSE /\ sess' = [sess EXCEPT ![p].pc = "wait_unchoke",
                                                   ![p].pieces = pieces_to_request]
                           /\ UNCHANGED <<download_queue, unfinished>>
       \/ /\ msg.kind = "bitfield"
          /\ LET pieces_to_request == bitfield_handler(msg.payload, verified_pieces)
             IN  IF Len(pieces_to_request) = 0
                 THEN HandleDrop(p, "open")
                 ELSE \* interested is sent; the session is queued at once
                      HandlePut(p, pieces_to_request, FALSE, TRUE)
       \/ /\ msg.kind \in {"choke", "unchoke", "keepalive"}
          /\ \* "Received unexpected message": task_done, the stream is not closed
             HandleDrop(p, "open")
       \/ /\ msg.kind \in {"timeout", "error"}
          /\ \* wait_for gives up after TIMEOUT, or the read fails: the except branch
             HandleDrop(p, "closed")
    /\ UNCHANGED <<units, life, feed, mainpc, peer_queue, handshake_queue, ledger>>

\* wait_for_unchoke reads one more message, or its read times out or fails.
WaitUnchoke(p, kind) ==
    /\ sess[p].pc = "wait_unchoke"
    /\ \/ /\ kind = "unchoke"
          /\ HandlePut(p, sess[p].pieces, TRUE, FALSE)
       \/ /\ kind \in {"choke", "keepalive"}
          /\ \* parsed and logged; the loop reads again, with a new timeout
             sess' = [sess EXCEPT ![p].parsed = IdOf(kind)]
          /\ UNCHANGED <<download_queue, unfinished>>
       \/ /\ kind \in {"timeout", "error"}
          /\ \* returns False, or the error reaches handle_worker's except branch
             HandleDrop(p, "closed")
    /\ UNCHANGED <<units, life, feed, mainpc, peer_queue, handshake_queue, ledger>>

\* ------------------------------------------------------ download stage
\* download_worker: an item is taken and download_from_peer runs up to the
\* lock of its first claim.
DownloadGet(p) ==
    /\ download_queue # <<>>
    /\ Head(download_queue) = p
    /\ Busy({"claim", "recv_block", "reject", "commit", "error"}) < NUM_DOWNLOAD_TASKS
    /\ download_queue' = Tail(download_queue)
    /\ sess' = [sess EXCEPT ![p].pc = "claim"]
    /\ UNCHANGED <<units, life, feed, mainpc, peer_queue, handshake_queue, unfinished, ledger>>

\* The request for block block_num of the piece at place k of the batch is
\* written and its answer awaited.
Requesting(s, k, block_num, piece_data) ==
    [s EXCEPT !.pc = "recv_block", !.k = k, !.block_num = block_num,
              !.piece_data = piece_data, !.parsed = ID_NONE]

\* The claim section, then either the break (nothing claimed: the stream is
\* closed and the worker calls task_done) or the first request of the batch.
DownloadClaim(p) ==
    /\ sess[p].pc = "claim"
    /\ LET claimed == ClaimLoop(sess[p].pieces, verified_pieces, claimed_pieces, <<>>)
       IN  /\ claimed_pieces' = claimed_pieces \cup Range(claimed)
           /\ IF claimed = <<>>
              THEN /\ sess' = [sess EXCEPT ![p] = Ended("none", "closed")]
                   /\ unfinished' = [unfinished EXCEPT !.download = @ - 1]
              ELSE /\ sess' = [sess EXCEPT ![p] =
                                 Requesting([@ EXCEPT !.claimed = claimed], 1, 0, NewBuffer)]
                   /\ UNCHANGED unfinished
    /\ UNCHANGED <<units, life, feed, mainpc, peer_queue, handshake_queue, download_queue,
                   verified_pieces, downloaded>>

\* The piece the session is downloading.
Current(s) == s.claimed[s.k]

\* A piece message for the awaited (index, begin) arrives, with the torrent's
\* bytes (genuine) or with others: the block is stored; after the last block
\* the hash is checked and, when it matches, the piece is written to disk.
DownloadBlock(p, genuine) ==
    /\ sess[p].pc = "recv_block"
    /\ LET s == sess[p]
           r_block == IF genuine THEN GoodBlock(Current(s), s.block_num + 1)
                      ELSE JunkBlock(s.block_num + 1)
           piece_data == StoreBlock(s.piece_data, s.block_num + 1, r_block)
       IN  IF s.block_num + 1 < num_blocks
           THEN sess' = [sess EXCEPT ![p] = Requesting(s, s.k, s.block_num + 1, piece_data)]
           ELSE sess' = [sess EXCEPT ![p].piece_data = piece_data,
                                     ![p].parsed = ID_NONE,
                                     ![p].pc = IF verify_piece_hash(piece_data, hash_of_pieces(Current(s)))
                                               THEN "commit" ELSE "reject"]
    /\ UNCHANGED <<units, life, feed, mainpc, queues, ledger>>

\* Another message arrives (not a piece, or not the awaited block): the
\* loop reads again.
DownloadIgnore(p, kind) ==
    /\ sess[p].pc = "recv_block"
    /\ sess' = [sess EXCEPT ![p].parsed = IdOf(kind)]
    /\ UNCHANGED <<units, life, feed, mainpc, queues, ledger>>

\* recv_whole_message raises (the peer closed the stream): the error is
\* re-raised to the except branch of download_from_peer.
DownloadReadError(p) ==
    /\ sess[p].pc = "recv_block"
    /\ sess' = [sess EXCEPT ![p].pc = "error", ![p].parsed = ID_NONE,
                            ![p].piece_data = <<>>, ![p].block_num = 0]
    /\ UNCHANGED <<units, life, feed, mainpc, queues, ledger>>

\* `continue` / the end of the for body: the next piece of the batch is
\* requested, or the while loop comes back to the claim.
NextPiece(s) ==
    IF s.k < Len(s.claimed)
    THEN Requesting(s, s.k + 1, 0, NewBuffer)
    ELSE [s EXCEPT !.pc = "claim", !.claimed = <<>>, !.k = 0, !.block_num = 0,
                   !.piece_data = <<>>]

\* The hash did not match: the index is discarded under the lock.
DownloadReject(p) ==
    /\ sess[p].pc = "reject"
    /\ claimed_pieces' = DiscardOnMismatch(claimed_pieces, Current(sess[p]))
    /\ sess' = [sess EXCEPT ![p] = NextPiece(@)]
    /\ UNCHANGED <<units, life, feed, mainpc, queues, verified_pieces, downloaded>>

WriteToDisk_skipped(written, piece_index) == written

\* save_piece_to_disk returns: the piece is among those written.
WriteToDisk(written, piece_index) == written \cup {piece_index}

\* The hash matched: save_piece_to_disk writes the piece and returns, then
\* the commit section runs.  There is no await between the two.
DownloadCommit(p) ==
    /\ sess[p].pc = "commit"
    /\ on_disk' = WriteToDisk(on_disk, Current(sess[p]))
    /\ verified_pieces' = [verified_pieces EXCEPT ![Current(sess[p])] = TRUE]
    /\ downloaded' = downloaded + 1
    /\ claimed_pieces' = DiscardOnCommit(claimed_pieces, Current(sess[p]))
    /\ sess' = [sess EXCEPT ![p] = NextPiece(@)]
    /\ UNCHANGED <<units, tracker, process, resume_file, feed, mainpc, queues>>

\* The except branch releases the batch under the lock, the finally closes
\* the stream, and download_worker calls task_done.
DownloadError(p) ==
    /\ sess[p].pc = "error"
    /\ claimed_pieces' = ReleaseOnError(claimed_pieces, sess[p].claimed)
    /\ sess' = [sess EXCEPT ![p] = Ended("error", "closed")]
    /\ unfinished' = [unfinished EXCEPT !.download = @ - 1]
    /\ UNCHANGED <<units, life, feed, mainpc, peer_queue, handshake_queue, download_queue,
                   verified_pieces, downloaded>>

\* ----------------------------------------------------- specification
Main ==
    \/ TrackerPublish
    \/ MainStart
    \/ MainJoinPeer
    \/ MainJoinHandshake
    \/ MainJoinDownload

Session(p) ==
    \/ \E outcome \in {"tcp_error", "handshake_failed", "ok"} : ConnDone(p, outcome)
    \/ HandleGet(p)
    \/ \E msg \in FirstMessages : HandleFirstMessage(p, msg)
    \/ \E kind \in {"unchoke", "choke", "timeout", "error"} : WaitUnchoke(p, kind)
    \/ DownloadGet(p)
    \/ DownloadClaim(p)
    \/ \E genuine \in BOOLEAN : DownloadBlock(p, genuine)
    \/ DownloadIgnore(p, "choke")
    \/ DownloadReadError(p)
    \/ DownloadReject(p)
    \/ DownloadCommit(p)
    \/ DownloadError(p)

Next == Main \/ \E p \in Peers : Session(p)

Spec == Init /\ [][Next]_vars

\* ----------------------------------------------------- claims C1..C10
\* The stages of a session inside download_from_peer.
DownloadPcs == {"claim", "recv_block", "reject", "commit", "error"}

\* The indices a session holds: those of its batch that it has neither
\* committed nor discarded yet (the piece in hand and the ones after it).
Held(s) ==
    IF s.pc \in {"recv_block", "reject", "commit", "error"}
    THEN {s.claimed[j] : j \in s.k .. Len(s.claimed)}
    ELSE {}

\* A step of session p (and not only of another session).
Stepped(p) == sess'[p] # sess[p]

\* C1: a piece index is held by at most one download session at a time.
C1_OneHolderPerPiece ==
    \A p, q \in Peers : p # q => Held(sess[p]) \cap Held(sess[q]) = {}

\* C2: downloaded equals the number of True entries of verified_pieces in
\* every reachable state.
C2_DownloadedIsPopcount ==
    downloaded = Cardinality({i \in Pieces : verified_pieces[i]})

\* C3: in every state (the lock is free in each) no piece index is both
\* verified and in claimed_pieces.
C3_VerifiedNotClaimed ==
    \A i \in Pieces : ~(verified_pieces[i] /\ i \in claimed_pieces)

\* A session has committed the first piece of its batch and still holds the
\* second one in claimed_pieces.
C3_Witness ==
    \E p \in Peers :
        /\ sess[p].pc = "recv_block"
        /\ sess[p].k = 2
        /\ verified_pieces[sess[p].claimed[1]]
        /\ sess[p].claimed[2] \in claimed_pieces

\* C4: a verified bit changes from False to True only in a step of a session
\* whose assembled bytes for that piece have the SHA-1 of hash_of_pieces.
C4_IntegrityGate ==
    [][\A i \in Pieces :
          (~verified_pieces[i] /\ verified_pieces'[i]) =>
              \E p \in Peers :
                  /\ Stepped(p)
                  /\ sess[p].pc = "commit"
                  /\ sess[p].claimed[sess[p].k] = i
                  /\ SHA1(sess[p].piece_data) = hash_of_pieces(i)]_vars

\* Piece 2, which no resume record of the model holds, has been verified.
C4_Witness == verified_pieces[2] /\ downloaded >= 1

\* C5: a batch returned by the claim step has at most MAX_CLAIM_PER_PEER
\* indices, each one in the peer's list, not verified and not in
\* claimed_pieces before the step, and all in claimed_pieces after it.
C5_ClaimBatch ==
    [][\A p \in Peers :
          (sess[p].pc = "claim" /\ sess'[p].pc = "recv_block") =>
              LET batch == sess'[p].claimed
              IN  /\ Len(batch) >= 1
                  /\ Len(batch) <= MAX_CLAIM_PER_PEER
                  /\ \A j \in 1 .. Len(batch) :
                        /\ batch[j] \in Range(sess[p].pieces)
                        /\ ~verified_pieces[batch[j]]
                        /\ batch[j] \notin claimed_pieces
                        /\ batch[j] \in claimed_pieces']_vars

\* A peer that offers more than the cap got a batch of exactly the cap.
C5_Witness ==
    \E p \in Peers :
        /\ sess[p].pc = "recv_block"
        /\ Len(sess[p].pieces) > MAX_CLAIM_PER_PEER
        /\ Len(sess[p].claimed) = MAX_CLAIM_PER_PEER

\* C6: the step taken after a failed SHA-1 check of piece i leaves
\* verified_pieces and downloaded as they were (a False bit stays False) and
\* leaves i out of claimed_pieces, so that i passes the claim test again
\* unless it is verified.
C6_MismatchReleases ==
    [][\A p \in Peers :
          (sess[p].pc = "reject" /\ Stepped(p)) =>
              LET i == sess[p].claimed[sess[p].k]
              IN  /\ verified_pieces' = verified_pieces
                  /\ downloaded' = downloaded
                  /\ i \notin claimed_pieces']_vars

\* Session p went past piece i without verifying it (its check failed), and
\* another session has claimed i since and assembled bytes that pass the check.
C6_Witness ==
    \E p, q \in Peers : \E i \in Pieces :
        /\ p # q
        /\ sess[p].pc \in {"recv_block", "reject", "commit", "error"}
        /\ \E j \in 1 .. (sess[p].k - 1) : sess[p].claimed[j] = i
        /\ ~verified_pieces[i]
        /\ sess[q].pc = "commit"
        /\ sess[q].claimed[sess[q].k] = i

\* C7: in the step that ends a download session, none of the indices the
\* session still held stays in claimed_pieces.
C7_EndReleasesClaims ==
    [][\A p \in Peers :
          (sess[p].pc \in DownloadPcs /\ sess'[p].pc = "closed") =>
              Held(sess[p]) \cap claimed_pieces' = {}]_vars

\* A session has ended through the except branch (a read failed while it
\* held a batch).
C7_Witness == \E p \in Peers : sess[p].pc = "closed" /\ sess[p].exit = "error"

\* C8: a session that has read choke in the block loop is not still waiting
\* for a block with its claims held.
C8_ChokeAbortsBatch ==
    \A p \in Peers :
        sess[p].parsed = ID_CHOKE =>
            ~(sess[p].pc = "recv_block" /\ Held(sess[p]) \cap claimed_pieces # {})

\* The steps the client takes by itself: those of main and of the workers
\* that need no message or stream event from a peer (timeouts are among them).
LocalStep ==
    \/ MainStart
    \/ MainJoinPeer
    \/ MainJoinHandshake
    \/ MainJoinDownload
    \/ \E p \in Peers :
          \/ ConnDone(p, "tcp_error")
          \/ HandleGet(p)
          \/ HandleFirstMessage(p, [kind |-> "timeout"])
          \/ WaitUnchoke(p, "timeout")
          \/ DownloadGet(p)
          \/ DownloadClaim(p)
          \/ DownloadReject(p)
          \/ DownloadCommit(p)
          \/ DownloadError(p)

\* C9: a session waiting for a block never leaves the client with nothing
\* to do by itself: the read times out, if nothing else.
C9_BlockReadTimesOut ==
    (\E p \in Peers : sess[p].pc = "recv_block") => ENABLED LocalStep

\* C10: a session on the download queue or in download_from_peer has
\* received an unchoke.
C10_UnchokedBeforeDownload ==
    \A p \in Peers :
        sess[p].pc \in ({"download_queue"} \cup DownloadPcs) => sess[p].unchoked

\* ---------------------------------------------------- claims C11..C20
\* C11: a session that waits for unchoke, is on the download queue or is
\* downloading has sent interested.
C11_InterestedBeforeUnchoke ==
    \A p \in Peers :
        sess[p].pc \in ({"wait_unchoke", "download_queue"} \cup DownloadPcs) =>
            sess[p].interested

\* C12: a session that has left the pipeline has no open stream.
C12_DroppedStreamClosed ==
    \A p \in Peers : sess[p].pc = "closed" => sess[p].stream # "open"

\* ------------------------------------------- bitfield_handler on its own
\* Pieces of the torrents the handler is called for: up to one whole byte and
\* two bits of a second one.
MaxBitPieces == 10

\* Bytes of the payloads: none, the first, the first three, the last, every
\* bit, and a mixed pattern.
BitfieldBytes == {0, 128, 224, 1, 255, 165}

\* verified_pieces of a torrent of n pieces: none verified, or the even ones.
VerifiedLists(n) ==
    {[i \in 0 .. (n - 1) |-> FALSE], [i \in 0 .. (n - 1) |-> i % 2 = 0]}

\* What a peer holds, for build_bitfeild: every piece, the even ones, the last one.
HeldLists(n) ==
    {[i \in 0 .. (n - 1) |-> TRUE], [i \in 0 .. (n - 1) |-> i % 2 = 0],
     [i \in 0 .. (n - 1) |-> i = n - 1]}

InitBitfield ==
    /\ Idle
    /\ Unstarted
    /\ ret = NoRet
    /\ \E n \in 1 .. MaxBitPieces :
          \/ \E payload \in [1 .. ((n + 7) \div 8) -> BitfieldBytes] :
                \E vp \in VerifiedLists(n) :
                    call = [op |-> "bitfield_handler", payload |-> payload, verified_pieces |-> vp]
          \/ \E bitfeild \in HeldLists(n) :
                call = [op |-> "build_bitfeild", bitfeild |-> bitfeild, num_of_pieces |-> n]

\* bitfield_handler(parsed_message, verified_pieces)
CallBitfieldHandler ==
    /\ call.op = "bitfield_handler"
    /\ ~ret.done
    /\ Returns(bitfield_handler(call.payload, call.verified_pieces))
    /\ UNCHANGED <<call, pipeline, life>>

\* build_bitfeild, and its payload decoded against a ledger with nothing verified.
CallBuildThenDecode ==
    /\ call.op = "build_bitfeild"
    /\ ~ret.done
    /\ Returns(bitfield_handler(build_bitfeild(call.bitfeild, call.num_of_pieces),
                                [i \in 0 .. (call.num_of_pieces - 1) |-> FALSE]))
    /\ UNCHANGED <<call, pipeline, life>>

NextBitfield == CallBitfieldHandler \/ CallBuildThenDecode

SpecBitfield == InitBitfield /\ [][NextBitfield]_vars

\* C13: bitfield_handler returns exactly the indices i < num_pieces whose bit
\* (payload[i / 8] >> (7 - i % 8)) & 1 is set and that are not verified; and
\* decoding what build_bitfeild encodes gives back the encoded set.
C13_BitfieldDecodesExactly ==
    ret.done =>
        /\ call.op = "bitfield_handler" =>
              Range(ret.value) =
                  {i \in DOMAIN call.verified_pieces :
                      /\ BitOf(call.payload[(i \div 8) + 1], 7 - (i % 8)) = 1
                      /\ ~call.verified_pieces[i]}
        /\ call.op = "build_bitfeild" =>
              Range(ret.value) = {i \in DOMAIN call.bitfeild : call.bitfeild[i]}

\* ----------------------------------------------- is_handshake on its own
\* b'BitTorrent protocol'
PSTR == <<66, 105, 116, 84, 111, 114, 114, 101, 110, 116, 32, 112, 114, 111, 116, 111, 99, 111, 108>>

HANDSHAKE_LEN == 68
PSTRLEN == 19

\* n bytes of value b.
Bytes(n, b) == [j \in 1 .. n |-> b]

is_handshake_any_hash(packet, info_hash) ==
    Len(packet) = HANDSHAKE_LEN /\ packet[1] = PSTRLEN /\ SubSeq(packet, 2, 20) = PSTR

\* verify_messages.is_handshake: the length test, then struct.unpack
\* ">B19s8x20s20s" (bytes 0, 1..19, 20..27 skipped, 28..47, 48..67) and the
\* three comparisons.
is_handshake(packet, info_hash) ==
    IF Len(packet) # HANDSHAKE_LEN THEN FALSE
    ELSE LET len_resp == packet[1]
             msg_resp == SubSeq(packet, 2, 20)
             info_hash_resp == SubSeq(packet, 29, 48)
         IN  ~(len_resp # PSTRLEN \/ msg_resp # PSTR \/ info_hash_resp # info_hash)

\* The fields a peer's answer is made of.
PstrLens == {19, 20}
Pstrs == {PSTR, [PSTR EXCEPT ![1] = 98], [PSTR EXCEPT ![19] = 76]}
Reserveds == {Bytes(8, 0), [Bytes(8, 0) EXCEPT ![6] = 16], Bytes(8, 255)}
InfoHashes == {Bytes(20, 17), [Bytes(20, 17) EXCEPT ![20] = 18]}
PeerIds == {Bytes(20, 45), Bytes(20, 0)}
\* The answer as sent, with its last byte missing, or with one byte more.
Tails == {"whole", "short", "long"}

\* The bytes on the wire.
Packet(c) ==
    LET whole == <<c.pstrlen>> \o c.pstr \o c.reserved \o c.info_hash_resp \o c.peer_id
    IN  CASE c.tail = "short" -> SubSeq(whole, 1, Len(whole) - 1)
          [] c.tail = "long" -> Append(whole, 0)
          [] OTHER -> whole

InitHandshake ==
    /\ Idle
    /\ Unstarted
    /\ ret = NoRet
    /\ call \in [op : {"is_handshake"}, pstrlen : PstrLens, pstr : Pstrs, reserved : Reserveds,
                  info_hash_resp : InfoHashes, peer_id : PeerIds, tail : Tails,
                  info_hash : InfoHashes]

\* verify.is_handshake(handshake_resp, torrent_details.info_hash)
CallIsHandshake ==
    /\ call.op = "is_handshake"
    /\ ~ret.done
    /\ Returns(is_handshake(Packet(call), call.info_hash))
    /\ UNCHANGED <<call, pipeline, life>>

NextHandshake == CallIsHandshake

SpecHandshake == InitHandshake /\ [][NextHandshake]_vars

\* C14: is_handshake is true exactly when the packet has 68 bytes, its first
\* byte is 19, the protocol string is "BitTorrent protocol" and the info_hash
\* field equals h, whatever the reserved bytes and the peer_id are.
C14_HandshakeIff ==
    ret.done =>
        (ret.value <=> /\ call.tail = "whole"
                       /\ call.pstrlen = 19
                       /\ call.pstr = PSTR
                       /\ call.info_hash_resp = call.info_hash)

\* A handshake with extension bits set in the reserved bytes was accepted.
C14_Witness ==
    /\ ret.done
    /\ ret.value
    /\ call.reserved = Bytes(8, 255)
    /\ call.peer_id = Bytes(20, 0)

\* ----------------------------------------- recv_whole_message on its own
\* The length prefixes a peer sends: a keep-alive, a one-byte message, a have,
\* a block of BLOCK_SIZE, 2 MiB, one byte more, and 1 GiB.
LengthPrefixes == {0, 1, 5, 9 + BLOCK_SIZE, 2097152, 2097153, 1073741824}

\* Who reads: handle_worker, wait_for_unchoke, or the block loop.
Readers == {"first_msg", "wait_unchoke", "recv_block"}

\* The message ids sent after the prefix.
SentIds == {ID_CHOKE, ID_UNCHOKE, ID_HAVE, ID_BITFIELD, ID_PIECE}

\* recv_whole_message(reader, isHandshake=False) on a stream that holds the
\* prefix and then `sent` bytes before it ends: readexactly(4), then
\* readexactly(length), which raises IncompleteReadError when the stream ends
\* first.  read is the number of payload bytes taken from the stream.
recv_whole_message(length, sent) ==
    IF sent < length
    THEN [error |-> "IncompleteReadError", read |-> sent]
    ELSE [error |-> "none", read |-> length]

InitRecv ==
    /\ Idle
    /\ Unstarted
    /\ ret = NoRet
    /\ \E length \in LengthPrefixes, whole \in BOOLEAN :
          call \in [op : {"recv_whole_message"}, reader : Readers, id : SentIds,
                    length : {length}, sent : {IF whole THEN length ELSE length \div 2}]

\* msg = await messages.recv_whole_message(reader, isHandshake=False)
CallRecvWholeMessage ==
    /\ call.op = "recv_whole_message"
    /\ ~ret.done
    /\ Returns(recv_whole_message(call.length, call.sent))
    /\ UNCHANGED <<call, pipeline, life>>

NextRecv == CallRecvWholeMessage

SpecRecv == InitRecv /\ [][NextRecv]_vars

\* C15: a message whose length prefix exceeds the ceiling of 2 MiB is
\* rejected with an error and none of its payload is read, whoever reads.
C15_OversizeRejected ==
    (ret.done /\ call.length > 2 * 1024 * 1024) =>
        (ret.value.error # "none" /\ ret.value.read = 0)

\* --------------------------------------- the block requests of one piece
\* Torrent shapes: piece lengths of one block, two blocks, and a block and a
\* part; up to MaxShapePieces pieces; the last piece whole, half, or one byte.
PieceLengths == {BLOCK_SIZE, 2 * BLOCK_SIZE, BLOCK_SIZE + 3616}
MaxShapePieces == 4

\* get_total_pieces: ceil(total_length / piece_length)
get_total_pieces(tl, pl) == (tl + pl - 1) \div pl

\* piece_data = bytearray(piece_length): the size of the buffer, whatever
\* the piece.
BufferLen(pl) == pl

\* The requests of the block loop for one piece, in order, and the length of
\* the buffer handed to verify_piece_hash.
RequestsOf(pl) ==
    [b \in 1 .. NumBlocksOf(pl) |->
        [begin |-> (b - 1) * BLOCK_SIZE, length |-> BlockLengthOf(pl, b - 1)]]

InitBlocks ==
    /\ Idle
    /\ Unstarted
    /\ ret = NoRet
    /\ \E pl \in PieceLengths, n \in 1 .. MaxShapePieces :
          \E last \in {pl, pl \div 2, 1} :
              \E piece_index \in 0 .. (n - 1) :
                  call = [op |-> "download_piece", piece_length |-> pl,
                          total_length |-> (n - 1) * pl + last,
                          piece_index |-> piece_index]

\* The for body of download_from_peer for one claimed piece, up to the hash check.
CallDownloadPiece ==
    /\ call.op = "download_piece"
    /\ ~ret.done
    /\ Returns([requests |-> RequestsOf(call.piece_length),
                buffer |-> BufferLen(call.piece_length)])
    /\ UNCHANGED <<call, pipeline, life>>

NextBlocks == CallDownloadPiece

SpecBlocks == InitBlocks /\ [][NextBlocks]_vars

\* C16: the requests for a piece are contiguous from 0, no block is longer
\* than BLOCK_SIZE, they end at the piece's effective size s (piece_length,
\* or total_length - (num_pieces - 1) * piece_length for the last piece),
\* and the buffer that is hashed has s bytes.
C16_RequestsCoverPiece ==
    ret.done =>
        LET pl == call.piece_length
            n == get_total_pieces(call.total_length, pl)
            s == IF call.piece_index = n - 1 THEN call.total_length - (n - 1) * pl ELSE pl
            rs == ret.value.requests
        IN  /\ \A b \in 1 .. Len(rs) :
                  /\ rs[b].begin = (IF b = 1 THEN 0 ELSE rs[b - 1].begin + rs[b - 1].length)
                  /\ rs[b].length >= 1
                  /\ rs[b].length <= BLOCK_SIZE
            /\ Len(rs) >= 1
            /\ rs[Len(rs)].begin + rs[Len(rs)].length = s
            /\ ret.value.buffer = s

\* -------------------------------------------------- save_piece_to_disk
\* File layouts: up to MaxFiles files, each of one of these lengths (an empty
\* file among them), with pieces of 2 or 3 bytes so that pieces span files.
MaxFiles == 3
FileLengths == {0, 1, 2, 4}
SmallPieceLengths == {2, 3}

Max(a, b) == IF a > b THEN a ELSE b

RECURSIVE SumTo(_, _)
SumTo(sizes, j) == IF j = 0 THEN 0 ELSE sizes[j] + SumTo(sizes, j - 1)

\* get_file_details: each file's length and its offset in the concatenation
\* (paths are distinct: a file is named by its place in the list).
get_file_details(sizes) ==
    [j \in 1 .. Len(sizes) |-> [length |-> sizes[j], offset |-> SumTo(sizes, j - 1)]]

\* The byte of the torrent at global offset g (never 0, the fill of a new file).
ContentAt(g) == g + 1

\* The buffer handed over for piece_index: the torrent's bytes, and when
\* padded, junk up to piece_length for a last piece that is shorter.
PieceBuffer(piece_index, pl, tl, padded) ==
    [j \in 1 .. (IF padded THEN pl ELSE Min(pl, tl - piece_index * pl)) |->
        IF piece_index * pl + (j - 1) < tl THEN ContentAt(piece_index * pl + (j - 1)) ELSE JUNK]

FileWriteOffset_global(overlap_start, file_offset) == overlap_start

\* file_write_offset = overlap_start - file_offset
FileWriteOffset(overlap_start, file_offset) == overlap_start - file_offset

\* A file no piece has touched yet.
NoFile == [exists |-> FALSE, data |-> <<>>]

\* One pass of save_piece_to_disk's loop body for file_entry, on that file.
SaveToFile(file_entry, old, global_offset, piece_data) ==
    LET piece_end == global_offset + Len(piece_data)
        file_end == file_entry.offset + file_entry.length
        overlap_start == Max(global_offset, file_entry.offset)
        overlap_end == Min(piece_end, file_end)
    IN  IF overlap_start < overlap_end
        THEN LET piece_data_start == overlap_start - global_offset
                 piece_data_end == overlap_end - global_offset
                 data_to_write == SubSeq(piece_data, piece_data_start + 1, piece_data_end)
                 file_write_offset == FileWriteOffset(overlap_start, file_entry.offset)
                 \* open(file_path, 'wb'); f.truncate(file_length)
                 before == IF old.exists THEN old.data ELSE [k \in 1 .. file_entry.length |-> 0]
                 last == Max(Len(before), file_write_offset + Len(data_to_write))
             IN  [exists |-> TRUE,
                  data |-> [k \in 1 .. last |->
                              IF k - 1 >= file_write_offset /\ k - 1 < file_write_offset + Len(data_to_write)
                              THEN data_to_write[k - file_write_offset]
                              ELSE IF k <= Len(before) THEN before[k] ELSE 0],
                  wrote |-> Len(data_to_write)]
        ELSE [exists |-> old.exists, data |-> old.data, wrote |-> 0]

\* save_piece_to_disk(piece_index, piece_data, torrent_details)
save_piece_to_disk(piece_index, piece_data, pl, files, disk) ==
    [j \in 1 .. Len(files) |-> SaveToFile(files[j], disk[j], piece_index * pl, piece_data)]

RECURSIVE SumWrote(_, _)
SumWrote(out, j) == IF j = 0 THEN 0 ELSE out[j].wrote + SumWrote(out, j - 1)

InitSave ==
    /\ Idle
    /\ Unstarted
    /\ \E m \in 1 .. MaxFiles :
          \E sizes \in [1 .. m -> FileLengths], pl \in SmallPieceLengths :
              /\ SumTo(sizes, m) >= 1
              /\ call = [op |-> "save_piece_to_disk", file_sizes |-> sizes, piece_length |-> pl,
                         total_length |-> SumTo(sizes, m), files |-> get_file_details(sizes)]
              /\ ret = [done |-> FALSE,
                        value |-> [disk |-> [j \in 1 .. m |-> NoFile], saved |-> {},
                                   piece_index |-> 0, wrote |-> 0]]

\* One verified piece, any that is not on disk yet, is saved.
CallSavePiece(piece_index, padded) ==
    /\ call.op = "save_piece_to_disk"
    /\ piece_index \notin ret.value.saved
    /\ LET pl == call.piece_length
           piece_data == PieceBuffer(piece_index, pl, call.total_length, padded)
           out == save_piece_to_disk(piece_index, piece_data, pl, call.files, ret.value.disk)
           saved == ret.value.saved \cup {piece_index}
       IN  ret' = [done |-> saved = 0 .. (get_total_pieces(call.total_length, pl) - 1),
                   value |-> [disk |-> [j \in 1 .. Len(out) |->
                                          [exists |-> out[j].exists, data |-> out[j].data]],
                              saved |-> saved,
                              piece_index |-> piece_index,
                              wrote |-> SumWrote(out, Len(out))]]
    /\ UNCHANGED <<call, pipeline, life>>

NextSave ==
    \E piece_index \in 0 .. (get_total_pieces(call.total_length, call.piece_length) - 1) :
        \E padded \in BOOLEAN : CallSavePiece(piece_index, padded)

SpecSave == InitSave /\ [][NextSave]_vars

\* C17: after any set of pieces has been saved, every byte of a saved piece
\* that lies inside the torrent is in the file whose range holds its global
\* offset, at global offset - file offset; bytes of pieces not saved are
\* untouched (still the zero fill); each file has its declared length; and
\* the last call wrote each in-torrent byte of its piece once.  With every
\* piece saved the files in declared order are the torrent content.
C17_FileCoverage ==
    call.op = "save_piece_to_disk" =>
        LET pl == call.piece_length
            v == ret.value
        IN  /\ \A j \in 1 .. Len(call.files) :
                  LET f == call.files[j]
                  IN  /\ v.disk[j].exists => Len(v.disk[j].data) = f.length
                      /\ \A k \in 0 .. (f.length - 1) :
                            LET g == f.offset + k
                            IN  IF g \div pl \in v.saved
                                THEN v.disk[j].exists /\ v.disk[j].data[k + 1] = ContentAt(g)
                                ELSE v.disk[j].exists => v.disk[j].data[k + 1] = 0
            /\ v.saved # {} =>
                  v.wrote = Min(pl, call.total_length - v.piece_index * pl)

\* Every piece of a three-file torrent whose first piece spans two files and
\* whose last piece is short has been saved.
C17_Witness ==
    /\ call.op = "save_piece_to_disk"
    /\ ret.done
    /\ call.file_sizes = <<1, 2, 4>>
    /\ call.piece_length = 3

\* ------------------------------------------ one peer that serves everything
\* The bitfield of a peer that has every piece of the torrent.
FullBitfield == build_bitfeild([i \in Pieces |-> TRUE], NumPieces)

\* The peer that serves; the tracker's other peers do not answer the connect.
Server == 1

\* A fresh download, or a resume record that already has the last piece.
InitOnePeer ==
    /\ peers_list = <<>>
    /\ published = 0
    /\ mainpc = "get"
    /\ peer_queue = <<>>
    /\ handshake_queue = <<>>
    /\ download_queue = <<>>
    /\ unfinished = [peer |-> 0, handshake |-> 0, download |-> 0]
    /\ sess = [p \in Peers |-> NoSession]
    /\ \E V \in {{}, {NumPieces - 1}} :
          /\ verified_pieces = [i \in Pieces |-> i \in V]
          /\ downloaded = Cardinality(V)
    /\ claimed_pieces = {}
    /\ Unstarted
    /\ call = NoCall
    /\ ret = NoRet

\* The steps of a session whose peer handshakes, sends its full bitfield
\* first and answers every request with the torrent's bytes; a peer other
\* than Server refuses the connection.
ServedSession(p) ==
    \/ ConnDone(p, IF p = Server THEN "ok" ELSE "tcp_error")
    \/ HandleGet(p)
    \/ HandleFirstMessage(p, [kind |-> "bitfield", payload |-> FullBitfield])
    \/ DownloadGet(p)
    \/ DownloadClaim(p)
    \/ DownloadBlock(p, TRUE)
    \/ DownloadReject(p)
    \/ DownloadCommit(p)

NextOnePeer == Main \/ \E p \in Peers : ServedSession(p)

\* The event loop runs every task that is ready, the tracker thread and the
\* connector thread both run, and the peer answers.
SpecOnePeer ==
    /\ InitOnePeer
    /\ [][NextOnePeer]_vars
    /\ WF_vars(Main)
    /\ \A p \in Peers : WF_vars(ServedSession(p))

\* C18: with one peer that serves every piece, every piece is eventually
\* verified and downloaded reaches num_pieces.
C18_EventuallyComplete ==
    <>((\A i \in Pieces : verified_pieces[i]) /\ downloaded = NumPieces)

\* ------------------------------------------------- the resume record
\* Pieces of the torrents whose ledger is written and loaded.
ResumePieces == 3

\* Hex info hashes: the torrent being downloaded, and another torrent.
ThisTorrent == "aa"
ResumeHashes == {"aa", "bb"}

\* json.dump / json.load of one value of the record: a bool is written as
\* the token true or false, an int and a str as themselves.
ToJsonBool(b) == IF b THEN "true" ELSE "false"

FromJsonBool_truthy(tok) == tok # ""

FromJsonBool(tok) == tok = "true"

\* ResumeData.to_json: asdict(self) without lock and claimed_pieces, dumped.
\* (piece_length, total_pieces, file_sizes, mtime and last_active are written
\* too; nothing of the ledger depends on them.)
to_json(rd) ==
    [info_hash |-> rd.info_hash,
     downloaded |-> rd.downloaded,
     verified_pieces |-> [j \in 1 .. Cardinality(DOMAIN rd.verified_pieces) |->
                            ToJsonBool(rd.verified_pieces[j - 1])]]

\* ResumeData.from_json: cls(**json.load(f)), a new lock, claimed_pieces = set().
from_json(file) ==
    [info_hash |-> file.info_hash,
     downloaded |-> file.downloaded,
     verified_pieces |-> [i \in 0 .. (Len(file.verified_pieces) - 1) |->
                            FromJsonBool(file.verified_pieces[i + 1])],
     claimed_pieces |-> {}]

\* The fresh record of master.py for a torrent of n pieces.
FreshResume(info_hash, n) ==
    [info_hash |-> info_hash,
     downloaded |-> 0,
     verified_pieces |-> [i \in 0 .. (n - 1) |-> FALSE],
     claimed_pieces |-> {}]

\* Step 5 of master.py: the record of the download directory is loaded when
\* resume.json is listed there, a fresh one is made otherwise.
LoadOrCreate(listed, file, info_hash, n) ==
    IF listed THEN from_json(file) ELSE FreshResume(info_hash, n)

\* Ledgers of a running download: any verified bits, downloaded their count
\* or one more, and any of these claims.
Ledgers ==
    {[info_hash |-> h, downloaded |-> d, verified_pieces |-> v, claimed_pieces |-> c] :
        h \in {ThisTorrent}, d \in 0 .. (ResumePieces + 1),
        v \in [0 .. (ResumePieces - 1) -> BOOLEAN], c \in {{}, {0}, {0, 2}}}

\* Records found in the download directory: written by to_json from a ledger
\* of this torrent or of another one.
ResumeFiles ==
    {to_json([info_hash |-> h, downloaded |-> Cardinality({i \in DOMAIN v : v[i]}),
              verified_pieces |-> v, claimed_pieces |-> {}]) :
        h \in ResumeHashes, v \in [0 .. (ResumePieces - 1) -> BOOLEAN]}

InitResume ==
    /\ Idle
    /\ Unstarted
    /\ ret = NoRet
    /\ \/ \E rd \in Ledgers : call = [op |-> "to_json", resume_data |-> rd]
       \/ \E file \in ResumeFiles, listed \in BOOLEAN :
             call = [op |-> "startup", listed |-> listed, file |-> file]

\* resume_data.to_json(path), and at the next start ResumeData.from_json(path).
CallSaveThenLoad ==
    /\ call.op = "to_json"
    /\ ~ret.done
    /\ Returns(from_json(to_json(call.resume_data)))
    /\ UNCHANGED <<call, pipeline, life>>

\* Step 5 of master.py for the torrent ThisTorrent.
CallStartup ==
    /\ call.op = "startup"
    /\ ~ret.done
    /\ Returns(LoadOrCreate(call.listed, call.file, ThisTorrent, ResumePieces))
    /\ UNCHANGED <<call, pipeline, life>>

NextResume == CallSaveThenLoad \/ CallStartup

SpecResume == InitResume /\ [][NextResume]_vars

\* C19: the ledger takes verified_pieces and downloaded from the resume file
\* only when the file exists and its info_hash is the torrent's; otherwise
\* every piece is unverified and downloaded is 0.
C19_ResumeOnlyIfSameTorrent ==
    (ret.done /\ call.op = "startup") =>
        IF call.listed /\ call.file.info_hash = ThisTorrent
        THEN /\ ret.value.downloaded = call.file.downloaded
             /\ \A i \in DOMAIN ret.value.verified_pieces :
                   ret.value.verified_pieces[i] = (call.file.verified_pieces[i + 1] = "true")
        ELSE /\ ret.value.downloaded = 0
             /\ \A i \in DOMAIN ret.value.verified_pieces : ~ret.value.verified_pieces[i]

WholeFile(record) == [state |-> "whole", record |-> record]

InitPersist ==
    /\ Idle
    /\ call \in [op : {"to_json"}, resume_data : Ledgers]
    /\ ret = NoRet
    /\ tracker = [pc |-> "none"]
    /\ process = [main |-> "to_json", at |-> "open"]
    /\ resume_file \in {[state |-> "absent"]} \cup
                        {WholeFile(f) : f \in {g \in ResumeFiles : g.info_hash = ThisTorrent}}
    /\ on_disk = {}

\* with open(path, "w") as f: the file is created or truncated.
ToJsonOpen ==
    /\ process = [main |-> "to_json", at |-> "open"]
    /\ resume_file' = [state |-> "empty"]
    /\ process' = [process EXCEPT !.at = "dump"]
    /\ UNCHANGED <<units, pipeline, tracker, on_disk>>

\* json.dump(data, f, indent=1) writes the text piece by piece: some of it
\* has reached the file.
ToJsonDump ==
    /\ process = [main |-> "to_json", at |-> "dump"]
    /\ resume_file' = [state |-> "part", record |-> to_json(call.resume_data)]
    /\ process' = [process EXCEPT !.at = "close"]
    /\ UNCHANGED <<units, pipeline, tracker, on_disk>>

\* The with block ends: the rest is flushed and the file closed.
ToJsonClose ==
    /\ process = [main |-> "to_json", at |-> "close"]
    /\ resume_file' = WholeFile(to_json(call.resume_data))
    /\ process' = [main |-> "returned", at |-> "close"]
    /\ UNCHANGED <<units, pipeline, tracker, on_disk>>

\* The process stops during the write (killed, or the machine stops):
\* nothing more is written.
ProcessStops ==
    /\ process.main = "to_json"
    /\ process' = [main |-> "stopped", at |-> process.at]
    /\ UNCHANGED <<units, pipeline, tracker, resume_file, on_disk>>

NextPersist == ToJsonOpen \/ ToJsonDump \/ ToJsonClose \/ ProcessStops

SpecPersist == InitPersist /\ [][NextPersist]_vars

\* C21: whenever the process has stopped during the write, resume.json is
\* the whole previous record (or absent, if there was none) or the whole new
\* record.
C21_PersistAtomic ==
    process.main = "stopped" =>
        \/ resume_file.state = "absent"
        \/ resume_file.state = "whole"

\* ------------------------------------------- the main thread of master.py
\* The ResumeData object that __main__ holds and the workers update.
resume_data ==
    [info_hash |-> ThisTorrent,
     downloaded |-> downloaded,
     verified_pieces |-> verified_pieces,
     claimed_pieces |-> claimed_pieces]

AllVerified == \A i \in Pieces : verified_pieces[i]

\* Both threads are started and the main thread waits in tracker_thread.join().
\* The record is a fresh one, or was loaded from a resume.json that has the
\* last piece or every piece.
InitShutdown ==
    /\ peers_list = <<>>
    /\ published = 0
    /\ mainpc = "get"
    /\ peer_queue = <<>>
    /\ handshake_queue = <<>>
    /\ download_queue = <<>>
    /\ unfinished = [peer |-> 0, handshake |-> 0, download |-> 0]
    /\ sess = [p \in Peers |-> NoSession]
    /\ \E V \in {{}, {NumPieces - 1}, Pieces} :
          /\ verified_pieces = [i \in Pieces |-> i \in V]
          /\ downloaded = Cardinality(V)
          /\ resume_file =
                IF V = {} THEN [state |-> "absent"]
                ELSE WholeFile(to_json([info_hash |-> ThisTorrent,
                                        downloaded |-> Cardinality(V),
                                        verified_pieces |-> [i \in Pieces |-> i \in V],
                                        claimed_pieces |-> {}]))
    /\ claimed_pieces = {}
    /\ tracker = [pc |-> "none"]
    /\ process = [main |-> "join"]
    /\ call = NoCall
    /\ ret = NoRet
    /\ on_disk = {}

\* KeyboardInterrupt is raised in the main thread, which leaves the join.
\* The tracker thread and the connector thread are not interrupted.
KeyboardInterrupt ==
    /\ process.main = "join"
    /\ process' = [main |-> "except"]
    /\ UNCHANGED <<units, pipeline, tracker, resume_file, on_disk>>

\* resume_data.to_json(json_file_path) in the handler, up to where
\* asdict(self) has copied the field downloaded.  The main thread takes no
\* lock that the connector thread honours (resume_data.lock is an asyncio
\* lock of the connector's loop, and to_json does not take it), so the
\* connector thread can run between this copy and the next.
AsdictDownloaded ==
    /\ process.main = "except"
    /\ process' = [main |-> "asdict", downloaded |-> downloaded]
    /\ UNCHANGED <<units, pipeline, tracker, resume_file, on_disk>>

\* asdict(self) copies verified_pieces, a later field, and the record is
\* written.
SaveOnInterrupt ==
    /\ process.main = "asdict"
    /\ resume_file' = WholeFile(to_json([resume_data EXCEPT
                                           !.downloaded = process.downloaded]))
    /\ process' = [main |-> "saved"]
    /\ UNCHANGED <<units, pipeline, tracker, on_disk>>

\* sys.exit(0): SystemExit ends the main thread and the interpreter waits
\* for its threads that are not daemon threads, which are both while True
\* loops; nothing stops them.
SysExit ==
    /\ process.main = "saved"
    /\ process' = [main |-> "wait_threads"]
    /\ UNCHANGED <<units, pipeline, tracker, resume_file, on_disk>>

NextShutdown ==
    \/ KeyboardInterrupt
    \/ AsdictDownloaded
    \/ SaveOnInterrupt
    \/ SysExit
    \/ Main
    \/ \E p \in Peers : ServedSession(p)

SpecShutdown == InitShutdown /\ [][NextShutdown]_vars

\* C22: once the interrupt handler has written the record, no worker
\* commits a further piece or changes the ledger, so that the record on
\* disk stays equal to the ledger.
C22_PersistedIsFinal ==
    [][process.main \in {"saved", "wait_threads"} =>
          /\ verified_pieces' = verified_pieces
          /\ downloaded' = downloaded]_vars

\* C23: once every piece is verified, the tracker loop publishes no further
\* list and the connector loop starts no further run of main.
C23_CompleteStopsLoops ==
    [][AllVerified => ~(TrackerPublish \/ MainStart)]_vars

\* ------------------------------------------------- the tracker thread
\* tracker_url_list has NumTrackers urls; the model follows MaxCycles passes
\* of populate_peers's loop.
NumTrackers == 2
MaxCycles == 2

\* peer_id = b'-TR4003-' + 12 random bytes: two of the values it can take.
LocalPeerIds == {"-TR4003-a", "-TR4003-b"}

\* What can happen to a connect request: a well-formed reply; no reply in
\* MAX_TIME_TO_WAIT (count is 1 and MAX_TRY is 1, so there is no second
\* try); the host name does not resolve; another socket error; a reply
\* shorter than 16 bytes; a reply longer than 16 bytes; a reply with another
\* action; a reply with another transaction id.
\* The exception _make_connection_request ends with ("none": it returns the
\* connection id).  `except Exception` around sendto and recvfrom calls
\* sys.exit(1); struct.unpack(">LLQ", ...) needs exactly 16 bytes.
make_connection_request(outcome) ==
    CASE outcome = "ok" -> "none"
      [] outcome = "timeout" -> "TimeoutError"
      [] outcome = "gaierror" -> "gaierror"
      [] outcome = "oserror" -> "SystemExit"
      [] outcome = "short" -> "InvalidConnectionRespone"
      [] outcome = "long" -> "struct.error"
      [] outcome = "action" -> "InvalidConnectionRespone"
      [] outcome = "txn" -> "InvalidConnectionRespone"

\* The announce request as packed: event, downloaded, left, uploaded and
\* port are the same literals on every call, peer_id is drawn anew.
AnnounceRequest(peer_id) ==
    [event |-> 2, downloaded |-> 0, left |-> total_length, uploaded |-> 0,
     port |-> 6881, peer_id |-> peer_id]

\* _make_announce_request: the exception it ends with and the globals after
\* it.  The globals are assigned from the reply before action and
\* transaction id are compared.
make_announce_request(outcome, reply, stats) ==
    CASE outcome = "ok" -> [raised |-> "none", stats |-> reply]
      [] outcome = "timeout" -> [raised |-> "TimeoutError", stats |-> stats]
      [] outcome = "gaierror" -> [raised |-> "gaierror", stats |-> stats]
      [] outcome = "oserror" -> [raised |-> "SystemExit", stats |-> stats]
      [] outcome = "short" -> [raised |-> "InvalidAnnounceRespone", stats |-> stats]
      [] outcome = "action" -> [raised |-> "InvalidAnnounceRespone", stats |-> reply]
      [] outcome = "txn" -> [raised |-> "InvalidAnnounceRespone", stats |-> reply]
      [] outcome = "ragged" -> [raised |-> "OSError", stats |-> reply]

\* `continue`, or the end of the loop body: the next url, or the end of
\* get_peers_list.
NextUrl(t) ==
    IF t.url < NumTrackers
    THEN [t EXCEPT !.url = t.url + 1, !.pc = "connect"]
    ELSE [t EXCEPT !.pc = "interval"]

InitTracker ==
    /\ Idle
    /\ call = NoCall
    /\ ret = NoRet
    /\ tracker = [pc |-> "connect", url |-> 1, cycle |-> 1, put |-> 0,
                  stats |-> [defined |-> FALSE],
                  last |-> [step |-> "none", outcome |-> "none"],
                  announces |-> <<>>]
    /\ process = [main |-> "join"]
    /\ resume_file = [state |-> "absent"]
    /\ on_disk = {}

\* Step 1 of the loop body of get_peers_list for the current url.  Its
\* except clauses catch gaierror, TimeoutError and InvalidAnnounceRespone;
\* the last one, `except Exception`, calls sys.exit(1), which ends the
\* thread, as does a SystemExit from the callee.
TrackerConnect(outcome) ==
    /\ tracker.pc = "connect"
    /\ LET raised == make_connection_request(outcome)
           t == [tracker EXCEPT !.last = [step |-> "connect", outcome |-> outcome]]
       IN  tracker' = IF raised = "none" THEN [t EXCEPT !.pc = "announce"]
                      ELSE IF raised \in {"gaierror", "TimeoutError", "InvalidAnnounceRespone"}
                      THEN NextUrl(t)
                      ELSE [t EXCEPT !.pc = "dead"]
    /\ UNCHANGED <<units, pipeline, process, resume_file, on_disk>>

\* Step 2 of the loop body: the announce, and peer_list.put(peers) when it
\* returns; there is no break after the put.  TimeoutError and
\* InvalidAnnounceRespone are caught, anything else ends the thread.
TrackerAnnounce(outcome, reply, peer_id) ==
    /\ tracker.pc = "announce"
    /\ LET r == make_announce_request(outcome, reply, tracker.stats)
           t == [tracker EXCEPT !.last = [step |-> "announce", outcome |-> outcome],
                                !.stats = r.stats,
                                !.announces = Append(@, AnnounceRequest(peer_id))]
       IN  IF r.raised = "none"
           THEN /\ tracker' = NextUrl([t EXCEPT !.put = t.put + 1])
                /\ peers_list' = Append(peers_list, PeerBatch)
                /\ published' = published + 1
           ELSE /\ tracker' = IF r.raised \in {"TimeoutError", "InvalidAnnounceRespone"}
                           THEN NextUrl(t)
                           ELSE [t EXCEPT !.pc = "dead"]
                /\ UNCHANGED feed
    /\ UNCHANGED <<units, mainpc, queues, sess, ledger, process, resume_file, on_disk>>

\* get_interval_data() in populate_peers: NameError while the globals have
\* never been assigned.
TrackerInterval ==
    /\ tracker.pc = "interval"
    /\ tracker' = IF tracker.stats.defined
                  THEN [tracker EXCEPT !.pc = "sleep",
                                       !.last = [step |-> "interval", outcome |-> "ok"]]
                  ELSE [tracker EXCEPT !.pc = "dead",
                                       !.last = [step |-> "interval",
                                                 outcome |-> "NameError"]]
    /\ UNCHANGED <<units, pipeline, process, resume_file, on_disk>>

\* time.sleep(Interval + 1) returns and the loop calls get_peers_list again.
TrackerSleep ==
    /\ tracker.pc = "sleep"
    /\ tracker.cycle < MaxCycles
    /\ tracker' = [tracker EXCEPT !.pc = "connect", !.url = 1, !.put = 0,
                                  !.cycle = tracker.cycle + 1,
                                  !.last = [step |-> "sleep", outcome |-> "ok"]]
    /\ UNCHANGED <<units, pipeline, process, resume_file, on_disk>>

\* connection_worker builds the handshake it sends to a peer.
BuildHandshake(peer_id) ==
    /\ call = NoCall
    /\ call' = [op |-> "build_bitTorrent_handshake", peer_id |-> peer_id]
    /\ UNCHANGED <<ret, pipeline, life>>

\* An announce can end as a connect can, and also with a reply shorter
\* than 20 bytes or one whose peer part is not a multiple of 6 bytes; the
\* reply carries interval, leechers and seeders in its first 20 bytes.
NextTracker ==
    \/ \E outcome \in {"ok", "timeout", "gaierror", "oserror",
                         "short", "long", "action", "txn"} :
          TrackerConnect(outcome)
    \/ \E outcome \in {"ok", "timeout", "gaierror", "oserror",
                         "short", "action", "txn", "ragged"},
          reply \in {[defined |-> TRUE, interval |-> 1, seeders |-> 2, leechers |-> 3],
                     [defined |-> TRUE, interval |-> 4, seeders |-> 5, leechers |-> 6]},
          peer_id \in LocalPeerIds :
          TrackerAnnounce(outcome, reply, peer_id)
    \/ TrackerInterval
    \/ TrackerSleep
    \/ \E peer_id \in LocalPeerIds : BuildHandshake(peer_id)

SpecTracker == InitTracker /\ [][NextTracker]_vars

\* C24: a connect or announce step that fails by timeout, DNS failure, a
\* short or wrongly sized reply, a wrong action or a transaction-id mismatch
\* leaves the tracker thread alive, at the next tracker or the end of the cycle.
C24_FailureMovesOn ==
    [][(/\ tracker.pc \in {"connect", "announce"}
        /\ tracker'.last.outcome \in
              {"timeout", "gaierror", "short", "long", "action", "txn"})
       => tracker'.pc \in {"connect", "interval"}]_vars

\* C25: at the end of a cycle in which no tracker gave peers, the first
\* cycle included, the loop goes on to its wait; the thread does not end.
C25_AllFailedKeepsLooping ==
    [][(tracker.pc = "interval" /\ tracker.put = 0) => tracker'.pc = "sleep"]_vars

\* C26: at most one peer list is put on the queue per cycle.
C26_OneListPerCycle == tracker.put <= 1

\* C27: an announce reply with a wrong action or a mismatching transaction
\* id leaves Interval, Seeder and Leecher as they were.
C27_InvalidReplyKeepsStats ==
    [][(/\ tracker.pc = "announce"
        /\ tracker'.last.outcome \in {"action", "txn"})
       => tracker'.stats = tracker.stats]_vars

\* C28: the first announce of a run carries event 2, every later one event
\* 0, or 1 once every piece is verified.
C28_EventField ==
    \A k \in 1 .. Len(tracker.announces) :
        tracker.announces[k].event =
            IF k = 1 THEN 2 ELSE IF AllVerified THEN 1 ELSE 0

\* C29: every announce and every handshake of the run carries the same peer_id.
C29_OnePeerId ==
    LET carried == {tracker.announces[k].peer_id : k \in 1 .. Len(tracker.announces)}
                   \cup (IF call = NoCall THEN {} ELSE {call.peer_id})
    IN  Cardinality(carried) <= 1

\* ------------------------------------------- a failing write to the disk
\* save_piece_to_disk raises (the disk is full, the file cannot be opened)
\* for a piece whose hash matched: the exception reaches the except branch
\* of download_from_peer before the commit section.  One write fails.
DownloadSaveFails(p) ==
    /\ sess[p].pc = "commit"
    /\ call = NoCall
    /\ call' = [op |-> "save_piece_to_disk", piece_index |-> Current(sess[p]), peer |-> p]
    /\ ret' = [done |-> TRUE, raised |-> "OSError"]
    /\ sess' = [sess EXCEPT ![p].pc = "error", ![p].piece_data = <<>>, ![p].block_num = 0]
    /\ UNCHANGED <<life, feed, mainpc, queues, ledger>>

\* The steps of a session whose peer handshakes, sends its full bitfield
\* and answers every request with the torrent's bytes.  Peers 1 and 2 serve;
\* the others refuse the connect.
DiskSession(p) ==
    \/ ConnDone(p, IF p \in {1, 2} THEN "ok" ELSE "tcp_error")
    \/ HandleGet(p)
    \/ HandleFirstMessage(p, [kind |-> "bitfield", payload |-> FullBitfield])
    \/ DownloadGet(p)
    \/ DownloadClaim(p)
    \/ DownloadBlock(p, TRUE)
    \/ DownloadReject(p)
    \/ DownloadCommit(p)
    \/ DownloadSaveFails(p)
    \/ DownloadError(p)

NextDisk == Main \/ \E p \in Peers : DiskSession(p)

SpecDisk == InitOnePeer /\ [][NextDisk]_vars

\* C30: after a write to the disk has failed, the pipeline does not carry
\* on: no session claims a batch and no piece is committed.
C30_DiskFailureIsFatal ==
    [][ret.done => ~(\E p \in Peers : DownloadClaim(p) \/ DownloadCommit(p))]_vars

\* ---------------------------------------------------- claims C31..C40
\* C31: the step taken after a failed SHA-1 check closes the session and
\* leaves none of its batch in claimed_pieces; no further request is sent.
C31_MismatchClosesSession ==
    [][\A p \in Peers :
          DownloadReject(p) =>
              /\ sess'[p].pc = "closed"
              /\ sess'[p].stream = "closed"
              /\ Range(sess[p].claimed) \cap claimed_pieces' = {}]_vars

\* C32: a verified bit is set only in a step in which the piece has been
\* written to disk, and a write that raises leaves verified_pieces and
\* downloaded as they were.
C32_VerifiedAfterWrite ==
    [][/\ \A i \in Pieces :
             (~verified_pieces[i] /\ verified_pieces'[i]) => i \in on_disk'
       /\ on_disk \subseteq on_disk'
       /\ \A p \in Peers :
             DownloadSaveFails(p) =>
                 /\ verified_pieces' = verified_pieces
                 /\ downloaded' = downloaded
                 /\ ~verified_pieces'[Current(sess[p])]]_vars

\* One write has failed, its piece is not verified, and another piece was
\* written and verified in this run.
C32_Witness ==
    /\ ret.done
    /\ call.op = "save_piece_to_disk"
    /\ ~verified_pieces[call.piece_index]
    /\ \E i \in on_disk : verified_pieces[i]

\* C34: when the first message after the handshake is a keep-alive, a choke
\* or an unchoke, the session stays in the handle stage, reading on.
C34_FirstMessageKeepsSession ==
    [][\A p \in Peers : \A kind \in {"keepalive", "choke", "unchoke"} :
          HandleFirstMessage(p, [kind |-> kind]) =>
              /\ sess'[p].pc = "first_msg"
              /\ unfinished'.handshake = unfinished.handshake]_vars

\* C37: the release on the error path takes out of claimed_pieces only
\* indices the session still holds, never one it gave up before and that
\* another session has claimed since.
C37_ReleaseOnlyOwnClaims ==
    [][\A p \in Peers :
          DownloadError(p) =>
              (claimed_pieces \ claimed_pieces') \subseteq Held(sess[p])]_vars

\* C39: in the step in which main cancels the worker tasks, the three
\* queues are empty, no session is queued or with a worker, and
\* claimed_pieces is empty.
C39_QuiescentAtCancel ==
    [][MainJoinDownload =>
          /\ peer_queue = <<>>
          /\ handshake_queue = <<>>
          /\ download_queue = <<>>
          /\ unfinished = [peer |-> 0, handshake |-> 0, download |-> 0]
          /\ \A p \in Peers : sess[p].pc \in {"none", "closed"}
          /\ claimed_pieces = {}]_vars

\* main has returned after a run in which piece 2 was committed, one session
\* ended on an error and another ended with nothing left to claim.
C39_Witness ==
    /\ mainpc = "get"
    /\ verified_pieces[2]
    /\ \E p, q \in Peers :
          /\ sess[p].pc = "closed" /\ sess[p].exit = "error"
          /\ sess[q].pc = "closed" /\ sess[q].exit = "none" /\ sess[q].stream = "closed"

\* C38: a record written by the interrupt handler has downloaded equal to
\* the number of true entries of its verified_pieces.
C38_SnapshotConsistent ==
    resume_file.state = "whole" =>
        LET v == resume_file.record.verified_pieces
        IN  resume_file.record.downloaded =
                Cardinality({j \in 1 .. Len(v) : v[j] = "true"})

\* ------------------------------------- one peer that may send anything
\* A have message arrives while the session waits for unchoke or for a
\* block: it is parsed, matches neither test of the loop that read it, and
\* the loop reads again.  call keeps the message, once per run.
LateHave(p, index) ==
    /\ sess[p].pc \in {"wait_unchoke", "recv_block"}
    /\ call = NoCall
    /\ call' = [op |-> "have", peer |-> p, index |-> index]
    /\ sess' = [sess EXCEPT ![p].parsed = ID_HAVE]
    /\ UNCHANGED <<ret, life, feed, mainpc, queues, ledger>>

\* The steps of a session whose peer, when it is Server, may send any first
\* message, any message while the client waits for unchoke, and answers
\* every request with the torrent's bytes or with other bytes; its stream
\* may fail to close.  The other peers refuse the connect.
TalkSession(p) ==
    \/ \E outcome \in {"ok", "handshake_failed", "close_raises"} :
          ConnDone(p, IF p = Server THEN outcome ELSE "tcp_error")
    \/ HandleGet(p)
    \/ \E msg \in FirstMessages : HandleFirstMessage(p, msg)
    \/ \E kind \in {"unchoke", "choke", "keepalive", "timeout"} : WaitUnchoke(p, kind)
    \/ \E index \in {2, 3} : LateHave(p, index)
    \/ DownloadGet(p)
    \/ DownloadClaim(p)
    \/ \E genuine \in BOOLEAN : DownloadBlock(p, genuine)
    \/ DownloadReject(p)
    \/ DownloadCommit(p)

\* The event loop runs every task that is ready; which message the peer
\* sends next is the peer's choice.
SpecTalk ==
    /\ InitOnePeer
    /\ [][Main \/ \E p \in Peers : TalkSession(p)]_vars
    /\ WF_vars(Main)
    /\ \A p \in Peers : WF_vars(TalkSession(p))

\* C33: once a have for a piece that is not verified has arrived during
\* the wait for unchoke or during the download, the piece is among those
\* the session may claim from this peer.
C33_LateHaveAddsPiece ==
    (/\ call.op = "have"
     /\ sess[call.peer].pc \in
            {"wait_unchoke", "download_queue", "claim", "recv_block", "reject", "commit"}
     /\ ~verified_pieces[call.index])
    => call.index \in Range(sess[call.peer].pieces)

\* C35: a session that waits for unchoke leaves the wait, whatever the peer
\* sends.
C35_UnchokeWaitEnds ==
    \A p \in Peers : (sess[p].pc = "wait_unchoke") ~> (sess[p].pc # "wait_unchoke")

\* C36: a download session whose peer answers every request ends.
C36_DownloadSessionEnds ==
    \A p \in Peers : (sess[p].pc = "claim") ~> (sess[p].pc = "closed")

\* C40: once every session has ended, every item taken from a queue has had
\* its task_done, so that main's joins return.
C40_EveryItemDone ==
    (\A p \in Peers : sess[p].pc = "closed") =>
        unfinished = [peer |-> 0, handshake |-> 0, download |-> 0]

====
